---- MODULE Spec2Model ----
(***************************************************************************)
(* Model of the ARES token program (src/arestoken/src/AREStoken.rs).       *)
(*                                                                         *)
(* One invocation of process_instruction is one atomic action.  The record *)
(* buffers of the accounts are the state; what an invocation is handed     *)
(* (accounts, signer flags, instruction payload, clock, blacklist account) *)
(* is drawn from small sets.                                               *)
(*                                                                         *)
(* u64 amounts.  TLC's integers are 32 bits wide and the genesis supply is *)
(* 40_000_000 * 1_000_000, so an amount is kept as a pair <<hi, lo>> that  *)
(* stands for hi * Decimals + lo with 0 <= lo < Decimals.  A u64 that has  *)
(* wrapped below zero (2^64 - k) is kept as the pair of -k (hi < 0): u64   *)
(* arithmetic is arithmetic modulo 2^64, and the pair of the residue of    *)
(* least magnitude represents it exactly while magnitudes stay far below   *)
(* 2^63, which the bounded inputs guarantee.  Comparison is unsigned.      *)
(***************************************************************************)
EXTENDS Integers, Sequences, FiniteSets, TLC

VARIABLES tokens, pool, kingwhale, wallets, overflow_checks, calls, last

vars == <<tokens, pool, kingwhale, wallets, overflow_checks, calls, last>>

(***************************************************************************)
(* Bounds of the model.                                                    *)
(***************************************************************************)
\* Number of invocations in a behaviour.
MaxCalls == 2
\* Number of invocations in a behaviour of the pool's clock (SpecBurns).
MaxBurnCalls == 4

(***************************************************************************)
(* Program constants.                                                      *)
(***************************************************************************)
\* 1_000_000: six decimal places (line 222); also the base of an amount pair.
Decimals == 1000000
\* 40_000_000 whole tokens (line 222).
GenesisTokens == 40000000
\* elapsed_time >= 3600 (line 259).
BurnInterval == 3600
\* tax_percentage = 5 (line 346).
tax_percentage == 5
\* instruction_data.len() >= 8 (lines 283, 302).
AmountLen == 8
\* instruction_data.len() >= 24 (line 343).
TransferLen == 24

(***************************************************************************)
(* u64 arithmetic on amount pairs.                                         *)
(***************************************************************************)
Norm(h, l) == <<h + (l \div Decimals), l % Decimals>>

Zero == <<0, 0>>

\* n base units, for 0 <= n.
Units(n) == Norm(0, n)

\* The pair stands for a value of 2^63 or more (a wrapped u64).
Wrapped(a) == a[1] < 0

\* a < b as u64.
U64Lt(a, b) ==
    IF Wrapped(a) = Wrapped(b)
    THEN a[1] < b[1] \/ (a[1] = b[1] /\ a[2] < b[2])
    ELSE Wrapped(b)

\* a > b as u64 (the comparisons of lines 286, 305, 348).
U64Gt(a, b) == U64Lt(b, a)

\* a + b and a - b modulo 2^64.
WrappingAdd(a, b) == Norm(a[1] + b[1], a[2] + b[2])
WrappingSub(a, b) == Norm(a[1] - b[1], a[2] - b[2])

\* The u64 sum does not fit / the u64 difference is below zero.
AddOverflows(a, b) == U64Lt(WrappingAdd(a, b), a)
SubOverflows(a, b) == U64Lt(a, b)

(***************************************************************************)
(* (x as f64 * (num / den)) as u64, for an unwrapped x.                     *)
(* The three factors of the program, 0.20, 0.0025 and 5.0 / 100.0, are     *)
(* each rounded UP to the nearest f64 (by 1.1e-17, 5.2e-20 and 2.8e-18),   *)
(* and x is below 2^53, so the f64 product is never below the exact        *)
(* product and exceeds it by less than 1 / den: its truncation is the      *)
(* floor of x * num / den, computed here in exact integer arithmetic.      *)
(***************************************************************************)
F64MulTrunc(x, num, den) ==
    LET h == x[1] * num
        l == x[2] * num
    IN  Norm(h \div den, ((h % den) * Decimals + l) \div den)

(***************************************************************************)
(* Addresses and accounts.                                                 *)
(***************************************************************************)
\* Pubkey::default(), the all-zero address.
DefaultKey == "default"

\* The accounts at the fixed positions: the acting token account (position
\* 0), the king-whale account (position 5) and the wallets account.
AresKey == "ares"
KingWhaleKey == "whale"

\* The accounts that hold an AresToken record: the acting token account and
\* the users' own token accounts.  Any of them may be supplied as the whale
\* sender, the buyer, the transfer sender or the transfer recipient.
TokenAccounts == {"ares", "alice", "bob"}

(***************************************************************************)
(* Record codec.  A buffer is kept field by field: a bool is its byte, an  *)
(* integer its value (to_le_bytes / from_le_bytes of a fixed width are     *)
(* inverse to each other), a symbol its four bytes as a string.            *)
(***************************************************************************)
BoolByte(b) == IF b THEN 1 ELSE 0

\* A zeroed 29-byte token buffer.
ZeroTokenBuffer ==
    [b0 |-> 0, total_supply |-> Zero, unlocked_supply |-> Zero,
     locked_supply |-> Zero, ares_symbol |-> "0000"]

\* Mutant of AresToken_unpack_from_slice: the flag byte is not read.
AresToken_unpack_from_slice_Unset(src) ==
    [is_initialized  |-> FALSE,
     total_supply    |-> src.total_supply,
     unlocked_supply |-> src.unlocked_supply,
     locked_supply   |-> src.locked_supply,
     ares_symbol     |-> src.ares_symbol]

AresToken_unpack_from_slice(src) ==
    [is_initialized  |-> src.b0 # 0,
     total_supply    |-> src.total_supply,
     unlocked_supply |-> src.unlocked_supply,
     locked_supply   |-> src.locked_supply,
     ares_symbol     |-> src.ares_symbol]

AresToken_pack_into_slice(r) ==
    [b0              |-> BoolByte(r.is_initialized),
     total_supply    |-> r.total_supply,
     unlocked_supply |-> r.unlocked_supply,
     locked_supply   |-> r.locked_supply,
     ares_symbol     |-> r.ares_symbol]

\* A zeroed 17-byte pool buffer.
ZeroPoolBuffer == [b0 |-> 0, reserve |-> Zero, last_burn_timestamp |-> 0]

\* Mutant of LiquidityPool_unpack_from_slice: the flag byte is not read.
LiquidityPool_unpack_from_slice_Unset(src) ==
    [is_initialized      |-> FALSE,
     reserve             |-> src.reserve,
     last_burn_timestamp |-> src.last_burn_timestamp]

LiquidityPool_unpack_from_slice(src) ==
    [is_initialized      |-> src.b0 # 0,
     reserve             |-> src.reserve,
     last_burn_timestamp |-> src.last_burn_timestamp]

LiquidityPool_pack_into_slice(r) ==
    [b0                  |-> BoolByte(r.is_initialized),
     reserve             |-> r.reserve,
     last_burn_timestamp |-> r.last_burn_timestamp]

\* A zeroed 40-byte king-whale buffer.
ZeroKingWhaleBuffer == [kingwhale_account |-> DefaultKey, largest_purchase |-> Zero]

KingWhale_unpack_from_slice(src) ==
    [kingwhale_account |-> src.kingwhale_account,
     largest_purchase  |-> src.largest_purchase]

KingWhale_pack_into_slice(r) ==
    [kingwhale_account |-> r.kingwhale_account,
     largest_purchase  |-> r.largest_purchase]

KingWhale_is_initialized(r) == r.kingwhale_account # DefaultKey

\* The 33-byte blacklist buffer holds the flag and exactly one address.
Blacklist_unpack_from_slice(src) ==
    [is_initialized       |-> src.b0 # 0,
     blacklisted_accounts |-> <<src.account>>]

\* Vec::contains.
Contains(v, k) == \E i \in 1..Len(v) : v[i] = k

\* A zeroed 64-byte wallets buffer.
ZeroWalletsBuffer == [marketing_wallet |-> DefaultKey, staff_wallet |-> DefaultKey]

Wallets_unpack_from_slice(src) ==
    [marketing_wallet |-> src.marketing_wallet,
     staff_wallet     |-> src.staff_wallet]

Wallets_pack_into_slice(r) ==
    [marketing_wallet |-> r.marketing_wallet,
     staff_wallet     |-> r.staff_wallet]

Wallets_is_initialized(r) ==
    r.marketing_wallet # DefaultKey /\ r.staff_wallet # DefaultKey

(***************************************************************************)
(* process_instruction.                                                    *)
(*                                                                         *)
(* An invocation is handed ix:                                             *)
(*   ares_owner_ok, rent_exempt, pool_owner_ok  the runtime's answers to   *)
(*       the owner and rent checks of lines 208, 214, 241;                 *)
(*   blacklist     the buffer of the account at position 2;                *)
(*   now           clock.unix_timestamp;                                   *)
(*   opt           the keys of the accounts after the king-whale account:  *)
(*       whale sender, buyer, transfer sender, transfer recipient, wallets *)
(*       account, marketing account, staff account (a prefix of these);    *)
(*   signers       the accounts whose is_signer is set;                    *)
(*   data_len, amount, unlock_date   the length of instruction_data, its   *)
(*       bytes [0,8) as u64 and its bytes [8,16) as i64.                   *)
(* The buffers are c.tokens (by account), c.pool, c.kingwhale, c.wallets.  *)
(* c.log collects the steps that began ("pool", "whale", "buy",            *)
(* "transfer") and what they did (the msg! lines: "burned",                *)
(* "whale_updated", "bought", "transferred"; and the silent                *)
(* initialisations: "token_init", "pool_init", "whale_init",               *)
(* "wallets_init"); c.begin holds the buffers as they were when a step     *)
(* began.                                                                  *)
(* checks is the build's overflow-checks setting: an overflowing u64       *)
(* operation panics when it is set and wraps when it is not.               *)
(***************************************************************************)
Buffers(c) ==
    [tokens |-> c.tokens, pool |-> c.pool, kingwhale |-> c.kingwhale,
     wallets |-> c.wallets]

\* The invocation ends: Ok(()), Err(result) or a panic, raised at `at`.
Return(c, result, at) ==
    [tokens |-> c.tokens, pool |-> c.pool, kingwhale |-> c.kingwhale,
     wallets |-> c.wallets, log |-> c.log, begin |-> c.begin,
     result |-> result, at |-> at]

Begin(c, step) == [c EXCEPT !.begin[step] = Buffers(c), !.log = @ \cup {step}]

Log(c, event) == [c EXCEPT !.log = @ \cup {event}]

\* Line 348: the transfer exceeds the token record's unlocked supply.
InsufficientUnlocked(transfer_amount, ares_token_data) ==
    U64Gt(transfer_amount, ares_token_data.unlocked_supply)

\* Mutant of StillLocked: the unlock date itself is still locked.
StillLocked_AtDate(unlock_date, now) == unlock_date >= now

\* Line 353: the tokens are still locked.
StillLocked(unlock_date, now) == unlock_date > now

\* Mutant of InsufficientLiquidity: the comparison is turned around.
InsufficientLiquidity_Reversed(buy_amount, pool_data) ==
    U64Lt(buy_amount, pool_data.reserve)

\* Mutant of InsufficientLiquidity: the buy is compared with the genesis
\* supply instead of the reserve.
InsufficientLiquidity_Supply(buy_amount, pool_data) ==
    U64Gt(buy_amount, <<GenesisTokens, 0>>)

\* Line 305: the buy exceeds the pool's reserve.
InsufficientLiquidity(buy_amount, pool_data) == U64Gt(buy_amount, pool_data.reserve)

\* Mutant of LargestSoFar: an equal purchase counts as larger.
LargestSoFar_OrEqual(transfer_amount, kingwhale_data) ==
    ~U64Lt(transfer_amount, kingwhale_data.largest_purchase)

\* Line 286: the purchase is the largest so far.
LargestSoFar(transfer_amount, kingwhale_data) ==
    U64Gt(transfer_amount, kingwhale_data.largest_purchase)

\* Mutant of BurnDue: an hour either way counts, before or after.
BurnDue_EitherWay(elapsed_time) ==
    elapsed_time >= BurnInterval \/ elapsed_time <= -BurnInterval

\* Mutant of BurnDue: exactly one hour is not yet enough.
BurnDue_After(elapsed_time) == elapsed_time > BurnInterval

\* Line 259: an hour has passed since the last burn.
BurnDue(elapsed_time) == elapsed_time >= BurnInterval

\* Mutant of Blacklisted: the initialized flag is read inverted.
Blacklisted_Inverted(blacklist_data, key) ==
    ~blacklist_data.is_initialized /\ Contains(blacklist_data.blacklisted_accounts, key)

\* Line 234: the blacklist is in force and lists the key.
Blacklisted(blacklist_data, key) ==
    blacklist_data.is_initialized /\ Contains(blacklist_data.blacklisted_accounts, key)

\* Lines 419-435: the sender's and the recipient's records, then the token
\* record and the wallets record.
TransferWrite(c0, ix, checks, ares_token_data, wallets_data) ==
    LET sender    == ix.opt[3]
        recipient == ix.opt[4]
        sender_token_data == AresToken_unpack_from_slice(c0.tokens[sender])
    IN
    IF checks /\ SubOverflows(sender_token_data.unlocked_supply, ix.amount)
    THEN Return(c0, "Panic", "sender_unlocked_supply")
    ELSE
    LET c1 == [c0 EXCEPT !.tokens[sender] = AresToken_pack_into_slice(
                   [sender_token_data EXCEPT !.unlocked_supply =
                        WrappingSub(@, ix.amount)])]
        recipient_token_data == AresToken_unpack_from_slice(c1.tokens[recipient])
    IN
    IF checks /\ AddOverflows(recipient_token_data.unlocked_supply, ix.amount)
    THEN Return(c1, "Panic", "recipient_unlocked_supply")
    ELSE
    LET c2 == [c1 EXCEPT !.tokens[recipient] = AresToken_pack_into_slice(
                   [recipient_token_data EXCEPT !.unlocked_supply =
                        WrappingAdd(@, ix.amount)])]
        c3 == [c2 EXCEPT !.tokens[AresKey] = AresToken_pack_into_slice(ares_token_data),
                         !.wallets = Wallets_pack_into_slice(wallets_data)]
    IN  Return(Log(c3, "transferred"), "Ok", "end")

\* Mutant of TransferWallets: the marketing address is packed as soon as it
\* is adopted, before the staff account is asked for.
TransferWallets_PackEarly(c, ix, checks, ares_token_data) ==
    IF Len(ix.opt) < 5
    THEN Return(c, "NotEnoughAccountKeys", "wallets_account")
    ELSE
    LET wallets_data == Wallets_unpack_from_slice(c.wallets)
    IN
    IF Wallets_is_initialized(wallets_data)
    THEN TransferWrite(c, ix, checks, ares_token_data, wallets_data)
    ELSE IF Len(ix.opt) < 6
    THEN Return(c, "NotEnoughAccountKeys", "marketing_account")
    ELSE IF Len(ix.opt) < 7
    THEN Return([c EXCEPT !.wallets = Wallets_pack_into_slice(
                     [wallets_data EXCEPT !.marketing_wallet = ix.opt[6]])],
                "NotEnoughAccountKeys", "staff_account")
    ELSE TransferWrite(Log(c, "wallets_init"), ix, checks, ares_token_data,
                       [marketing_wallet |-> ix.opt[6], staff_wallet |-> ix.opt[7]])

\* Lines 372-417: the wallets record.  Lines 383-417 copy the first eight
\* bytes of a buffer onto themselves: they change nothing.
TransferWallets(c, ix, checks, ares_token_data) ==
    IF Len(ix.opt) < 5
    THEN Return(c, "NotEnoughAccountKeys", "wallets_account")
    ELSE
    LET wallets_data == Wallets_unpack_from_slice(c.wallets)
    IN
    IF Wallets_is_initialized(wallets_data)
    THEN TransferWrite(c, ix, checks, ares_token_data, wallets_data)
    ELSE IF Len(ix.opt) < 6
    THEN Return(c, "NotEnoughAccountKeys", "marketing_account")
    ELSE IF Len(ix.opt) < 7
    THEN Return(c, "NotEnoughAccountKeys", "staff_account")
    ELSE TransferWrite(Log(c, "wallets_init"), ix, checks, ares_token_data,
                       [marketing_wallet |-> ix.opt[6], staff_wallet |-> ix.opt[7]])

\* Lines 341-370: the taxed transfer's checks, the tax, and the in-memory
\* token and king-whale records.  The king-whale record changed at lines
\* 366-370 is not packed again before the invocation ends.
Transfer(c0, ix, checks, ares_token_data, kingwhale_data) ==
    LET c == Begin(c0, "transfer")
    IN
    IF Len(ix.opt) < 4
    THEN Return(c, "Ok", "end")
    ELSE IF ~(ix.opt[3] \in ix.signers /\ ix.opt[4] \in ix.signers
              /\ ix.data_len >= TransferLen)
    THEN Return(c, "Ok", "end")
    ELSE IF InsufficientUnlocked(ix.amount, ares_token_data)
    THEN Return(c, "InsufficientFunds", "transfer")
    ELSE IF StillLocked(ix.unlock_date, ix.now)
    THEN Return(c, "InvalidInstructionData", "unlock_date")
    ELSE
    LET tax_amount == F64MulTrunc(ix.amount, tax_percentage, 100)
        after_amount == WrappingSub(ares_token_data.unlocked_supply, ix.amount)
        \* Lines 366-370; no later line reads or packs this value.
        kingwhale_after ==
            IF ix.opt[3] = kingwhale_data.kingwhale_account
            THEN [kingwhale_data EXCEPT !.largest_purchase = WrappingAdd(Zero, ix.amount)]
            ELSE kingwhale_data
    IN
    IF checks /\ SubOverflows(after_amount, tax_amount)
    THEN Return(c, "Panic", "tax_amount")
    ELSE TransferWallets(c, ix, checks,
             [ares_token_data EXCEPT !.unlocked_supply =
                  WrappingSub(after_amount, tax_amount)])

\* Lines 324-337: the buyer's own token record.
BuyCredit(c0, ix, checks, ares_token_data, kingwhale_data) ==
    LET buyer == ix.opt[2]
        read  == AresToken_unpack_from_slice(c0.tokens[buyer])
        user_token_data ==
            IF read.is_initialized
            THEN read
            ELSE [is_initialized |-> TRUE, total_supply |-> Zero,
                  unlocked_supply |-> Zero, locked_supply |-> Zero,
                  ares_symbol |-> "ARES"]
    IN
    IF checks /\ AddOverflows(user_token_data.unlocked_supply, ix.amount)
    THEN Return(c0, "Panic", "user_unlocked_supply")
    ELSE Transfer(
             Log([c0 EXCEPT !.tokens[buyer] = AresToken_pack_into_slice(
                      [user_token_data EXCEPT !.unlocked_supply =
                           WrappingAdd(@, ix.amount)])], "bought"),
             ix, checks, ares_token_data, kingwhale_data)

\* Mutant of Buy: the reserve is compared after the records are packed.
Buy_CheckAfterPack(c0, ix, checks, ares_token_data, pool_data, kingwhale_data) ==
    LET c == Begin(c0, "buy")
        pool_after == [pool_data EXCEPT !.reserve = WrappingSub(@, ix.amount)]
        ares_after == [ares_token_data EXCEPT !.unlocked_supply =
                           WrappingAdd(@, ix.amount)]
        packed == [c EXCEPT !.tokens[AresKey] = AresToken_pack_into_slice(ares_after),
                            !.pool = LiquidityPool_pack_into_slice(pool_after)]
    IN
    IF Len(ix.opt) < 2
    THEN Transfer(c, ix, checks, ares_token_data, kingwhale_data)
    ELSE IF ~(ix.opt[2] \in ix.signers /\ ix.data_len >= AmountLen)
    THEN Transfer(c, ix, checks, ares_token_data, kingwhale_data)
    ELSE IF checks /\ AddOverflows(ares_token_data.unlocked_supply, ix.amount)
    THEN Return(c, "Panic", "unlocked_supply")
    ELSE IF InsufficientLiquidity(ix.amount, pool_data)
    THEN Return(packed, "InsufficientFunds", "buy")
    ELSE BuyCredit(packed, ix, checks, ares_after, kingwhale_data)

\* Lines 300-322: the buy's check, the reserve and the token record.
Buy(c0, ix, checks, ares_token_data, pool_data, kingwhale_data) ==
    LET c == Begin(c0, "buy")
    IN
    IF Len(ix.opt) < 2
    THEN Transfer(c, ix, checks, ares_token_data, kingwhale_data)
    ELSE IF ~(ix.opt[2] \in ix.signers /\ ix.data_len >= AmountLen)
    THEN Transfer(c, ix, checks, ares_token_data, kingwhale_data)
    ELSE IF InsufficientLiquidity(ix.amount, pool_data)
    THEN Return(c, "InsufficientFunds", "buy")
    ELSE IF checks /\ AddOverflows(ares_token_data.unlocked_supply, ix.amount)
    THEN Return(c, "Panic", "unlocked_supply")
    ELSE
    LET pool_after == [pool_data EXCEPT !.reserve = WrappingSub(@, ix.amount)]
        ares_after == [ares_token_data EXCEPT !.unlocked_supply =
                           WrappingAdd(@, ix.amount)]
    IN  BuyCredit([c EXCEPT !.tokens[AresKey] = AresToken_pack_into_slice(ares_after),
                            !.pool = LiquidityPool_pack_into_slice(pool_after)],
                  ix, checks, ares_after, kingwhale_data)

\* Lines 271-298: the king-whale record.
KingWhaleStep(c0, ix, checks, ares_token_data, pool_data) ==
    LET c == Begin(c0, "whale")
        read == KingWhale_unpack_from_slice(c.kingwhale)
        init == ~KingWhale_is_initialized(read)
        kingwhale_data0 ==
            IF init
            THEN [kingwhale_account |-> KingWhaleKey, largest_purchase |-> Zero]
            ELSE read
        update == /\ Len(ix.opt) >= 1
                  /\ ix.opt[1] \in ix.signers
                  /\ ix.data_len >= AmountLen
                  /\ LargestSoFar(ix.amount, kingwhale_data0)
        kingwhale_data ==
            IF update
            THEN [kingwhale_account |-> ix.opt[1], largest_purchase |-> ix.amount]
            ELSE kingwhale_data0
        c1 == [c EXCEPT !.kingwhale = KingWhale_pack_into_slice(kingwhale_data),
                        !.log = @ \cup (IF init THEN {"whale_init"} ELSE {})
                                  \cup (IF update THEN {"whale_updated"} ELSE {})]
    IN  Buy(c1, ix, checks, ares_token_data, pool_data, kingwhale_data)

\* Lines 246-269: pool genesis and the time-gated burn.
PoolStep(c0, ix, checks, ares_token_data) ==
    LET c == Begin(c0, "pool")
        read == LiquidityPool_unpack_from_slice(c.pool)
        init == ~read.is_initialized
        pool_data0 ==
            IF init
            THEN [is_initialized |-> TRUE,
                  reserve |-> F64MulTrunc(ares_token_data.total_supply, 20, 100),
                  last_burn_timestamp |-> ix.now]
            ELSE read
        elapsed_time == ix.now - pool_data0.last_burn_timestamp
        burn == BurnDue(elapsed_time)
        burn_amount == F64MulTrunc(pool_data0.reserve, 1, 400)
        pool_data ==
            IF burn
            THEN [pool_data0 EXCEPT !.reserve = WrappingSub(@, burn_amount),
                                    !.last_burn_timestamp = ix.now]
            ELSE pool_data0
        c1 == [c EXCEPT !.pool = LiquidityPool_pack_into_slice(pool_data),
                        !.log = @ \cup (IF init THEN {"pool_init"} ELSE {})
                                  \cup (IF burn THEN {"burned"} ELSE {})]
    IN  KingWhaleStep(c1, ix, checks, ares_token_data, pool_data)

\* Lines 219-244: token genesis, the blacklist and the pool's owner.
TokenStep(c0, ix, checks) ==
    LET read == AresToken_unpack_from_slice(c0.tokens[AresKey])
        init == ~read.is_initialized
        ares_token_data ==
            IF init
            THEN [is_initialized |-> TRUE,
                  total_supply |-> <<GenesisTokens, 0>>,
                  unlocked_supply |-> Zero,
                  locked_supply |-> <<GenesisTokens, 0>>,
                  ares_symbol |-> "ARES"]
            ELSE read
        c == [c0 EXCEPT !.tokens[AresKey] = AresToken_pack_into_slice(ares_token_data),
                        !.log = @ \cup (IF init THEN {"token_init"} ELSE {})]
        blacklist_data == Blacklist_unpack_from_slice(ix.blacklist)
    IN
    IF Blacklisted(blacklist_data, AresKey)
    THEN Return(c, "InvalidAccountData", "blacklist")
    ELSE IF ~ix.pool_owner_ok
    THEN Return(c, "IncorrectProgramId", "pool_owner")
    ELSE PoolStep(c, ix, checks, ares_token_data)

\* Mutant of process_instruction: rent exemption is checked before the owner.
process_instruction_RentFirst(st, ix, checks) ==
    LET c == [tokens |-> st.tokens, pool |-> st.pool, kingwhale |-> st.kingwhale,
              wallets |-> st.wallets, log |-> {},
              begin |-> [s \in {"pool", "whale", "buy", "transfer"} |-> st]]
    IN
    IF ~ix.rent_exempt
    THEN Return(c, "AccountNotRentExempt", "rent")
    ELSE IF ~ix.ares_owner_ok
    THEN Return(c, "IncorrectProgramId", "ares_owner")
    ELSE TokenStep(c, ix, checks)

\* Lines 197-217: the token account's owner and rent exemption.
process_instruction(st, ix, checks) ==
    LET c == [tokens |-> st.tokens, pool |-> st.pool, kingwhale |-> st.kingwhale,
              wallets |-> st.wallets, log |-> {},
              begin |-> [s \in {"pool", "whale", "buy", "transfer"} |-> st]]
    IN
    IF ~ix.ares_owner_ok
    THEN Return(c, "IncorrectProgramId", "ares_owner")
    ELSE IF ~ix.rent_exempt
    THEN Return(c, "AccountNotRentExempt", "rent")
    ELSE TokenStep(c, ix, checks)

(***************************************************************************)
(* What the invocations of a behaviour are handed.                         *)
(***************************************************************************)
\* clock.unix_timestamp: just before, at, and after one and two hours.
Times == {0, BurnInterval - 1, BurnInterval, 2 * BurnInterval}

\* The genesis reserve, 20% of the genesis supply.
GenesisReserve == <<GenesisTokens \div 5, 0>>

\* Amounts of the payload: two small ones (5% of the first is 1.5), the
\* whole genesis reserve, and one base unit more than it.
Amounts == {Units(30), Units(100), GenesisReserve, WrappingAdd(GenesisReserve, Units(1))}

\* A zeroed blacklist buffer.
ZeroBlacklistBuffer == [b0 |-> 0, account |-> DefaultKey]

\* An invocation that passes the owner, rent and blacklist checks.
Ix(now, opt, signers, data_len, amount, unlock_date) ==
    [ares_owner_ok |-> TRUE, rent_exempt |-> TRUE, pool_owner_ok |-> TRUE,
     blacklist |-> ZeroBlacklistBuffer, now |-> now, opt |-> opt,
     signers |-> signers, data_len |-> data_len, amount |-> amount,
     unlock_date |-> unlock_date]

\* The six fixed accounts alone, with an empty payload.
Bare(now) == Ix(now, <<>>, {}, 0, Zero, 0)

\* <<buyer, sender, recipient>>; the buyer is also the whale sender.
Parties ==
    {<<"alice", "alice", "bob">>, <<"ares", "alice", "bob">>,
     <<"bob", "ares", "alice">>, <<"bob", "alice", "ares">>,
     <<"alice", "alice", "alice">>}

\* <<marketing account, staff account>>.
WalletKeys == {<<"mkt", "staff">>, <<"mkt2", "staff2">>, <<"mkt", DefaultKey>>}

TransferOpt(p, k) == <<p[1], p[1], p[2], p[3], "wallets", k[1], k[2]>>

\* The parties and wallet keys of the transfers: every party with the first
\* keys, and the first party with every key.
PartiesAndKeys ==
    {<<p, <<"mkt", "staff">>>> : p \in Parties}
    \cup {<<<<"alice", "alice", "bob">>, k>> : k \in WalletKeys}

\* alice buys 100 and transfers 100 to bob, with every account supplied and
\* everybody signing.
Typical == Ix(0, TransferOpt(<<"alice", "alice", "bob">>, <<"mkt", "staff">>),
              TokenAccounts, TransferLen, Units(100), 0)

\* Invocations that differ from Bare or Typical in one of the checks of
\* lines 208-244.
CheckInputs ==
    {[Bare(0) EXCEPT !.ares_owner_ok = FALSE],
     [Bare(0) EXCEPT !.rent_exempt = FALSE],
     [Typical EXCEPT !.ares_owner_ok = FALSE, !.rent_exempt = FALSE],
     [Bare(0) EXCEPT !.pool_owner_ok = FALSE],
     [Bare(0) EXCEPT !.blacklist = [b0 |-> 1, account |-> AresKey]],
     [Bare(0) EXCEPT !.blacklist = [b0 |-> 0, account |-> AresKey]],
     [Bare(0) EXCEPT !.blacklist = [b0 |-> 1, account |-> "alice"]],
     [Typical EXCEPT !.ares_owner_ok = FALSE],
     [Typical EXCEPT !.rent_exempt = FALSE],
     [Typical EXCEPT !.pool_owner_ok = FALSE],
     [Typical EXCEPT !.blacklist = [b0 |-> 1, account |-> AresKey]],
     [Typical EXCEPT !.blacklist = [b0 |-> 1, account |-> "alice"]]}

PoolInputs == {Bare(t) : t \in Times}

\* A payload too short to hold an amount, or one that holds an amount.
WhaleInputs ==
    {Ix(0, <<"alice">>, {"alice"}, AmountLen - 1, Zero, 0)}
    \cup
    {Ix(0, <<u>>, sg, AmountLen, a, 0) :
         u \in {"alice", "bob"}, sg \in {{}, {"alice", "bob"}}, a \in Amounts}

\* The purchaser at the whale position and at the buy position.
BuyInputs ==
    {Ix(t, <<u, u>>, TokenAccounts, AmountLen, a, 0) :
         t \in {0, BurnInterval}, u \in TokenAccounts, a \in Amounts}
    \cup
    {Ix(0, <<"alice", "alice">>, {}, AmountLen, Units(30), 0),
     Ix(0, <<"alice", "alice", "alice">>, TokenAccounts, AmountLen, Units(30), 0)}

\* Transfers with every account they may read, everybody signing or
\* everybody but the buyer; and transfers with the last accounts missing.
TransferInputs ==
    UNION {{Ix(t, TransferOpt(pk[1], pk[2]), sg, TransferLen, a, t + d) :
                t \in {0, BurnInterval},
                sg \in {TokenAccounts, TokenAccounts \ {pk[1][1]}},
                a \in {Units(30), Units(100)}, d \in {0, 1}} :
           pk \in PartiesAndKeys}
    \cup
    {[Typical EXCEPT !.opt = SubSeq(Typical.opt, 1, n)] : n \in 4..6}
    \cup
    {[Typical EXCEPT !.data_len = TransferLen - 1]}

Inputs == CheckInputs \cup PoolInputs \cup WhaleInputs \cup BuyInputs \cup TransferInputs

(***************************************************************************)
(* The state machine.                                                      *)
(***************************************************************************)
State ==
    [tokens |-> tokens, pool |-> pool, kingwhale |-> kingwhale, wallets |-> wallets]

NotInvoked ==
    [ix |-> Bare(0), result |-> "NotInvoked", at |-> "end", log |-> {},
     pre |-> [tokens |-> [a \in TokenAccounts |-> ZeroTokenBuffer],
              pool |-> ZeroPoolBuffer, kingwhale |-> ZeroKingWhaleBuffer,
              wallets |-> ZeroWalletsBuffer],
     begin |-> [s \in {"pool", "whale", "buy", "transfer"} |->
                  [tokens |-> [a \in TokenAccounts |-> ZeroTokenBuffer],
                   pool |-> ZeroPoolBuffer, kingwhale |-> ZeroKingWhaleBuffer,
                   wallets |-> ZeroWalletsBuffer]]]

\* Every buffer is zeroed; the build checks overflow or does not.
Init ==
    /\ tokens = [a \in TokenAccounts |-> ZeroTokenBuffer]
    /\ pool = ZeroPoolBuffer
    /\ kingwhale = ZeroKingWhaleBuffer
    /\ wallets = ZeroWalletsBuffer
    /\ overflow_checks \in BOOLEAN
    /\ calls = 0
    /\ last = NotInvoked

\* One invocation of the program, from entry to its result.  last keeps
\* what it was handed, the buffers before it, its result and its log.
InvokeUpTo(ix, max_calls) ==
    /\ last.result = "NotInvoked"
    /\ calls < max_calls
    /\ LET out == process_instruction(State, ix, overflow_checks)
       IN  /\ tokens' = out.tokens
           /\ pool' = out.pool
           /\ kingwhale' = out.kingwhale
           /\ wallets' = out.wallets
           /\ last' = [ix |-> ix, result |-> out.result, at |-> out.at,
                       log |-> out.log, pre |-> State, begin |-> out.begin]
    /\ calls' = calls + 1
    /\ UNCHANGED overflow_checks

Invoke(ix) == InvokeUpTo(ix, MaxCalls)

\* The invocation is over: nothing but the buffers outlives it.
Complete ==
    /\ last.result # "NotInvoked"
    /\ last' = NotInvoked
    /\ UNCHANGED <<tokens, pool, kingwhale, wallets, overflow_checks, calls>>

Next ==
    \/ \E ix \in Inputs : Invoke(ix)
    \/ Complete

Spec == Init /\ [][Next]_vars

(***************************************************************************)
(* The pool under a clock that runs forwards and backwards: more           *)
(* invocations, each handed one of the clock values, and either nothing    *)
(* else, or a buy, or a pool account that fails the owner check.           *)
(***************************************************************************)
\* clock.unix_timestamp: before the epoch, and around one, two and three
\* hours after it.
ClockValues ==
    {-BurnInterval, 0, BurnInterval - 1, BurnInterval, 2 * BurnInterval - 1,
     2 * BurnInterval, 3 * BurnInterval}

BurnInputs ==
    {Bare(t) : t \in ClockValues}
    \cup {Ix(t, <<"alice", "alice">>, {"alice"}, AmountLen, Units(100), 0) :
              t \in ClockValues}
    \cup {[Bare(t) EXCEPT !.pool_owner_ok = FALSE] : t \in ClockValues}

InvokeAt(ix) == InvokeUpTo(ix, MaxBurnCalls)

NextBurns ==
    \/ \E ix \in BurnInputs : InvokeAt(ix)
    \/ Complete

SpecBurns == Init /\ [][NextBurns]_vars

(***************************************************************************)
(* Properties.  They are stated on the state right after an invocation:    *)
(* last.pre holds the buffers before it, the variables the buffers after   *)
(* it, last.begin[s] the buffers when step s of it began.                  *)
(***************************************************************************)
Invoked == last.result # "NotInvoked"

\* The invocation reached the step with the accounts, signatures and payload
\* the step asks for.
WhaleAttempted ==
    /\ Invoked /\ "whale" \in last.log
    /\ Len(last.ix.opt) >= 1 /\ last.ix.opt[1] \in last.ix.signers
    /\ last.ix.data_len >= AmountLen

BuyAttempted ==
    /\ Invoked /\ "buy" \in last.log
    /\ Len(last.ix.opt) >= 2 /\ last.ix.opt[2] \in last.ix.signers
    /\ last.ix.data_len >= AmountLen

TransferAttempted ==
    /\ Invoked /\ "transfer" \in last.log
    /\ Len(last.ix.opt) >= 4
    /\ last.ix.opt[3] \in last.ix.signers /\ last.ix.opt[4] \in last.ix.signers
    /\ last.ix.data_len >= TransferLen

\* n times the amount a, for small n.
TimesN(a, n) == Norm(a[1] * n, a[2] * n)

\* f = floor(x * num / den), stated without division.
IsFloorOf(f, x, num, den) ==
    /\ ~U64Lt(TimesN(x, num), TimesN(f, den))
    /\ U64Lt(TimesN(x, num), TimesN(WrappingAdd(f, Units(1)), den))

\* old and new are unwrapped, and new is old less d.
DecreasedBy(old, new, d) ==
    ~Wrapped(old) /\ ~Wrapped(new) /\ WrappingAdd(new, d) = old

\* C1 (as claimed): once the token record is initialized, its total_supply
\* equals unlocked_supply + locked_supply in every reachable state.
C1_SupplyIdentity ==
    tokens[AresKey].b0 # 0 =>
        tokens[AresKey].total_supply =
            WrappingAdd(tokens[AresKey].unlocked_supply, tokens[AresKey].locked_supply)

\* C2 (as claimed): a buy of more than the reserve the initialized pool held
\* before the invocation fails, and the invocation leaves the reserve and the
\* token record's unlocked_supply as they were before it.
C2_FailedBuyRestoresAll ==
    (BuyAttempted /\ last.pre.pool.b0 # 0
       /\ U64Gt(last.ix.amount, last.pre.pool.reserve)) =>
        /\ last.result = "InsufficientFunds"
        /\ pool.reserve = last.pre.pool.reserve
        /\ tokens[AresKey].unlocked_supply = last.pre.tokens[AresKey].unlocked_supply

\* C2 (amended): a buy of more than the reserve left by the invocation's pool
\* genesis and burn fails with InsufficientFunds and the buy step writes
\* nothing: every buffer is as it was when the buy step began.  If the pool
\* was initialized and less than an hour had elapsed, the reserve is the one
\* before the invocation; if the token record was initialized, its
\* unlocked_supply is the one before the invocation.
C2_FailedBuyWritesNothing ==
    (BuyAttempted /\ U64Gt(last.ix.amount, last.begin["buy"].pool.reserve)) =>
        /\ last.result = "InsufficientFunds" /\ last.at = "buy"
        /\ State = last.begin["buy"]
        /\ (last.pre.pool.b0 # 0
              /\ last.ix.now - last.pre.pool.last_burn_timestamp < BurnInterval
              => pool = last.pre.pool)
        /\ (last.pre.tokens[AresKey].b0 # 0
              => tokens[AresKey] = last.pre.tokens[AresKey])

\* C2 witness: a buy failed for want of liquidity in an invocation that burned.
C2_Witness ==
    /\ BuyAttempted /\ last.result = "InsufficientFunds" /\ last.at = "buy"
    /\ "burned" \in last.log
    /\ pool.reserve # last.pre.pool.reserve

\* C3 (as claimed): no unlocked_supply counter ever underflows: no deduction
\* of a taxed transfer wraps below zero or panics.
C3_NoUnderflow ==
    /\ \A a \in TokenAccounts : ~Wrapped(tokens[a].unlocked_supply)
    /\ ~(last.result = "Panic"
           /\ last.at \in {"tax_amount", "sender_unlocked_supply"})

\* C4: an invocation that passes the owner and rent checks and is handed an
\* initialized blacklist listing the token account fails with
\* InvalidAccountData; it leaves the pool, king-whale and wallets records and
\* every other token record unchanged, and the token record either unchanged
\* or, if it was uninitialized, genesis-initialized.
C4_BlacklistedRejected ==
    (Invoked /\ last.ix.ares_owner_ok /\ last.ix.rent_exempt
       /\ last.ix.blacklist.b0 # 0 /\ last.ix.blacklist.account = AresKey) =>
        /\ last.result = "InvalidAccountData"
        /\ pool = last.pre.pool
        /\ kingwhale = last.pre.kingwhale
        /\ wallets = last.pre.wallets
        /\ \A a \in TokenAccounts \ {AresKey} : tokens[a] = last.pre.tokens[a]
        /\ \/ tokens[AresKey] = last.pre.tokens[AresKey]
           \/ /\ last.pre.tokens[AresKey].b0 = 0
              /\ tokens[AresKey] =
                     [b0 |-> 1, total_supply |-> <<40000000, 0>>,
                      unlocked_supply |-> <<0, 0>>,
                      locked_supply |-> <<40000000, 0>>, ares_symbol |-> "ARES"]

\* C4 witness: a blacklisted invocation that was handed every account and a
\* full payload, and wrote the token record's genesis.
C4_Witness ==
    /\ Invoked /\ last.result = "InvalidAccountData"
    /\ Len(last.ix.opt) = 7 /\ last.ix.data_len >= TransferLen
    /\ last.pre.tokens[AresKey].b0 = 0 /\ tokens[AresKey].b0 = 1

\* C5 (as claimed): when the buy step succeeds, for any buyer account, it
\* lowers the reserve by exactly buy_amount, raises the token record's
\* unlocked_supply by exactly buy_amount and raises the buyer's own record's
\* unlocked_supply (zero if the record was uninitialized) by exactly
\* buy_amount.
C5_BuyMovesAmount ==
    (BuyAttempted /\ "bought" \in last.log) =>
        LET before == last.begin["buy"]
            after  == last.begin["transfer"]
            buyer  == last.ix.opt[2]
            held   == IF before.tokens[buyer].b0 = 0
                      THEN Zero
                      ELSE before.tokens[buyer].unlocked_supply
        IN  /\ after.pool.reserve = WrappingSub(before.pool.reserve, last.ix.amount)
            /\ after.tokens[AresKey].unlocked_supply =
                   WrappingAdd(before.tokens[AresKey].unlocked_supply, last.ix.amount)
            /\ after.tokens[buyer].unlocked_supply = WrappingAdd(held, last.ix.amount)

\* C6: in an invocation that reaches an initialized pool, if
\* now - last_burn_timestamp >= 3600 the burn step lowers the reserve by
\* exactly floor(reserve * 0.0025), once, and sets last_burn_timestamp to now;
\* otherwise it leaves the pool record unchanged.
C6_BurnStep ==
    (Invoked /\ "pool" \in last.log /\ last.pre.pool.b0 # 0) =>
        LET before == last.pre.pool
            after  == last.begin["whale"].pool
            burned == WrappingSub(before.reserve, after.reserve)
        IN  IF last.ix.now - before.last_burn_timestamp >= 3600
            THEN /\ IsFloorOf(burned, before.reserve, 1, 400)
                 /\ after.last_burn_timestamp = last.ix.now
                 /\ after.b0 = 1
            ELSE after = before

\* C6 witness: a burn exactly 3600 seconds after the last one, of a reserve
\* that is no multiple of 400.
C6_Witness ==
    /\ Invoked /\ "burned" \in last.log
    /\ last.ix.now - last.pre.pool.last_burn_timestamp = 3600
    /\ TimesN(WrappingSub(last.pre.pool.reserve, last.begin["whale"].pool.reserve), 400)
           # last.pre.pool.reserve
    /\ last.begin["whale"].pool.reserve # last.pre.pool.reserve

\* C7 (as claimed): after a successful taxed transfer whose sender is the
\* king whale, the persisted king-whale record's largest_purchase equals
\* transfer_amount (stated for transfers between accounts other than the
\* acting token account in which no counter wrapped).
C7_WhaleResetPersisted ==
    (TransferAttempted /\ "transferred" \in last.log
       /\ AresKey \notin {last.ix.opt[2], last.ix.opt[3], last.ix.opt[4]}
       /\ \A a \in TokenAccounts : ~Wrapped(tokens[a].unlocked_supply)
       /\ last.ix.opt[3] = last.begin["transfer"].kingwhale.kingwhale_account) =>
        kingwhale.largest_purchase = last.ix.amount

\* C8 (as claimed): a successful taxed transfer between two token accounts
\* other than the acting token account lowers the token record's
\* unlocked_supply by exactly transfer_amount + floor(transfer_amount * 5 /
\* 100), lowers the sender's unlocked_supply by transfer_amount and raises
\* the recipient's by transfer_amount; a transfer of more than the token
\* record's unlocked_supply fails with InsufficientFunds.
C8_TransferMovesAmount ==
    /\ (TransferAttempted
          /\ AresKey \notin {last.ix.opt[2], last.ix.opt[3], last.ix.opt[4]}
          /\ U64Gt(last.ix.amount,
                   last.begin["transfer"].tokens[AresKey].unlocked_supply)) =>
           (last.result = "InsufficientFunds" /\ last.at = "transfer")
    /\ (TransferAttempted /\ "transferred" \in last.log
       /\ last.ix.opt[3] # last.ix.opt[4]
       /\ AresKey \notin {last.ix.opt[2], last.ix.opt[3], last.ix.opt[4]}) =>
        LET before    == last.begin["transfer"].tokens
            sender    == last.ix.opt[3]
            recipient == last.ix.opt[4]
            taxed     == WrappingSub(
                             WrappingSub(before[AresKey].unlocked_supply,
                                         tokens[AresKey].unlocked_supply),
                             last.ix.amount)
        IN  /\ IsFloorOf(taxed, last.ix.amount, 5, 100)
            /\ DecreasedBy(before[AresKey].unlocked_supply,
                           tokens[AresKey].unlocked_supply,
                           WrappingAdd(last.ix.amount, taxed))
            /\ DecreasedBy(before[sender].unlocked_supply,
                           tokens[sender].unlocked_supply, last.ix.amount)
            /\ DecreasedBy(tokens[recipient].unlocked_supply,
                           before[recipient].unlocked_supply, last.ix.amount)

\* C9: a taxed transfer that passes the unlocked-supply check is not rejected
\* for locking when unlock_date equals the current time, and fails with
\* InvalidInstructionData, writing nothing, when unlock_date is one second
\* later.
C9_UnlockBoundary ==
    (TransferAttempted
       /\ ~(last.result = "InsufficientFunds" /\ last.at = "transfer")) =>
        /\ last.ix.unlock_date = last.ix.now =>
               last.result # "InvalidInstructionData"
        /\ last.ix.unlock_date = last.ix.now + 1 =>
               /\ last.result = "InvalidInstructionData"
               /\ State = last.begin["transfer"]

\* C9 witness: a transfer with unlock_date equal to the current time went
\* through.
C9_Witness ==
    /\ TransferAttempted /\ "transferred" \in last.log
    /\ last.ix.unlock_date = last.ix.now
    /\ last.ix.now > 0

\* C10: the whale-tracking step with a signing sender and a payload of at
\* least 8 bytes sets the king-whale record to (sender, amount) if amount is
\* greater than the largest purchase so far, and otherwise leaves the record
\* as it was (as initialized, if it was uninitialized); the record is not
\* written again in the invocation.
C10_WhaleUpdate ==
    WhaleAttempted =>
        LET before == IF last.pre.kingwhale.kingwhale_account = DefaultKey
                      THEN [kingwhale_account |-> KingWhaleKey,
                            largest_purchase |-> Zero]
                      ELSE last.pre.kingwhale
        IN  IF U64Gt(last.ix.amount, before.largest_purchase)
            THEN kingwhale = [kingwhale_account |-> last.ix.opt[1],
                              largest_purchase |-> last.ix.amount]
            ELSE kingwhale = before

\* C10 witness: another sender's purchase equal to the largest so far left
\* the record alone.
C10_Witness ==
    /\ WhaleAttempted
    /\ last.ix.amount = last.pre.kingwhale.largest_purchase
    /\ last.ix.opt[1] # last.pre.kingwhale.kingwhale_account
    /\ last.pre.kingwhale.kingwhale_account \in TokenAccounts
    /\ kingwhale = last.pre.kingwhale

\* C11: pool genesis runs in an invocation exactly when the pool buffer it
\* reaches is uninitialized; it leaves reserve = floor(0.20 * total_supply)
\* (8_000_000_000_000) and last_burn_timestamp = now, and that is the
\* persisted record unless a buy of the same invocation lowers the reserve.
\* An initialized pool stays initialized, so genesis never runs again; and an
\* invocation less than 3600 seconds after last_burn_timestamp that buys
\* nothing leaves the pool record as it was.
C11_PoolGenesisOnce ==
    Invoked =>
        /\ "pool_init" \in last.log <=>
               ("pool" \in last.log /\ last.pre.pool.b0 = 0)
        /\ "pool_init" \in last.log =>
               LET genesis == last.begin["whale"].pool
               IN  /\ genesis = [b0 |-> 1, reserve |-> <<8000000, 0>>,
                                 last_burn_timestamp |-> last.ix.now]
                   /\ IsFloorOf(genesis.reserve,
                                last.begin["pool"].tokens[AresKey].total_supply, 20, 100)
                   /\ "burned" \notin last.log
                   /\ "bought" \notin last.log => pool = genesis
                   /\ pool.b0 = 1 /\ pool.last_burn_timestamp = last.ix.now
        /\ last.pre.pool.b0 # 0 =>
               /\ pool.b0 # 0
               /\ (last.ix.now - last.pre.pool.last_burn_timestamp < 3600
                     /\ "bought" \notin last.log) => pool = last.pre.pool

\* C11 witness: the second invocation reached a pool whose genesis ran at an
\* earlier clock value, less than 3600 seconds before, and bought nothing.
C11_Witness ==
    /\ Invoked /\ "pool" \in last.log /\ "bought" \notin last.log
    /\ last.pre.pool.b0 # 0
    /\ last.pre.pool.reserve = <<8000000, 0>>
    /\ last.ix.now > last.pre.pool.last_burn_timestamp
    /\ last.ix.now - last.pre.pool.last_burn_timestamp < 3600
    /\ pool = last.pre.pool

\* C12: an invocation that passes the owner and rent checks and finds the
\* token record's flag unset leaves, before its pool, buy and transfer steps,
\* the token record initialized with total_supply = 40_000_000_000_000,
\* locked_supply = total_supply, unlocked_supply = 0 and symbol "ARES"; one
\* that finds the flag set leaves the token record as it found it.
C12_TokenGenesis ==
    (Invoked /\ last.ix.ares_owner_ok /\ last.ix.rent_exempt) =>
        LET before == last.pre.tokens[AresKey]
            after  == IF "pool" \in last.log
                      THEN last.begin["pool"].tokens[AresKey]
                      ELSE tokens[AresKey]
        IN  IF before.b0 = 0
            THEN /\ "token_init" \in last.log
                 /\ after.b0 = 1
                 /\ after.total_supply = <<40000000, 0>>
                 /\ after.locked_supply = after.total_supply
                 /\ after.unlocked_supply = <<0, 0>>
                 /\ after.ares_symbol = "ARES"
            ELSE /\ "token_init" \notin last.log
                 /\ after = before

\* C12 witness: token genesis ran in an invocation that went on to buy, so
\* the token record it ended with is no longer the genesis record.
C12_Witness ==
    /\ Invoked /\ "token_init" \in last.log /\ "bought" \in last.log
    /\ last.pre.tokens[AresKey] = ZeroTokenBuffer
    /\ last.begin["pool"].tokens[AresKey].unlocked_supply = Zero
    /\ tokens[AresKey].unlocked_supply # Zero

\* C13 (as claimed): the wallets record never holds one address without the
\* other (stated for states in which no counter has wrapped), and once it
\* holds both no invocation changes either of them.
C13_WalletsSetTogetherOnce ==
    /\ (\A a \in TokenAccounts : ~Wrapped(tokens[a].unlocked_supply)) =>
           (wallets.marketing_wallet = DefaultKey <=> wallets.staff_wallet = DefaultKey)
    /\ (Invoked /\ last.pre.wallets.marketing_wallet # DefaultKey
          /\ last.pre.wallets.staff_wallet # DefaultKey) =>
           wallets = last.pre.wallets

\* C14: an invocation whose token account is not owned by the program fails
\* with IncorrectProgramId (WrongOwner); one whose token account is owned by
\* the program and is not rent-exempt fails with AccountNotRentExempt
\* (NotRentExempt); in both cases no step began and every buffer is as it was
\* before the invocation.
C14_OwnerThenRent ==
    Invoked =>
        /\ ~last.ix.ares_owner_ok =>
               /\ last.result = "IncorrectProgramId" /\ last.at = "ares_owner"
               /\ last.log = {}
               /\ State = last.pre
        /\ (last.ix.ares_owner_ok /\ ~last.ix.rent_exempt) =>
               /\ last.result = "AccountNotRentExempt" /\ last.at = "rent"
               /\ last.log = {}
               /\ State = last.pre

\* C14 witness: an invocation failing both checks, handed every account, a
\* full payload and buffers a buy had written before, failed on the owner.
C14_Witness ==
    /\ Invoked /\ ~last.ix.ares_owner_ok /\ ~last.ix.rent_exempt
    /\ Len(last.ix.opt) = 7 /\ last.ix.data_len >= TransferLen
    /\ last.pre.tokens[AresKey].unlocked_supply # Zero
    /\ last.result = "IncorrectProgramId"
    /\ State = last.pre

\* C15: an initialized pool's reserve is an unwrapped amount no greater than
\* the token record's total_supply, and no invocation that finds the pool
\* initialized leaves a greater reserve than it found.
C15_ReserveBounded ==
    /\ pool.b0 # 0 =>
           /\ ~Wrapped(pool.reserve)
           /\ tokens[AresKey].b0 # 0
           /\ ~U64Gt(pool.reserve, tokens[AresKey].total_supply)
    /\ (Invoked /\ last.pre.pool.b0 # 0) =>
           ~U64Gt(pool.reserve, last.pre.pool.reserve)

\* C15 witness: an invocation found the pool initialized, burned and bought,
\* and left a smaller reserve than the burn alone.
C15_Witness ==
    /\ Invoked /\ last.pre.pool.b0 # 0
    /\ "burned" \in last.log /\ "bought" \in last.log
    /\ U64Lt(last.begin["whale"].pool.reserve, last.pre.pool.reserve)
    /\ U64Lt(pool.reserve, last.begin["whale"].pool.reserve)

\* C16 (as claimed): no write of a step is lost to a later write from a copy
\* decoded before it: after a successful taxed transfer the acting token
\* account's unlocked_supply is what the buffer held when the transfer step
\* began (the buyer's credit included), less transfer_amount and the tax, less
\* transfer_amount again if that account is the sender, plus transfer_amount
\* if it is the recipient (stated for invocations in which no counter
\* wrapped and these deductions do not pass below zero).
C16_NoLostUpdate ==
    (TransferAttempted /\ "transferred" \in last.log
       /\ \A a \in TokenAccounts : ~Wrapped(tokens[a].unlocked_supply)) =>
        LET before == last.begin["transfer"].tokens[AresKey].unlocked_supply
            amount == last.ix.amount
            taxed  == WrappingSub(WrappingSub(before, amount),
                                  F64MulTrunc(amount, 5, 100))
            debited  == IF last.ix.opt[3] = AresKey
                        THEN WrappingSub(taxed, amount) ELSE taxed
            credited == IF last.ix.opt[4] = AresKey
                        THEN WrappingAdd(debited, amount) ELSE debited
        IN  ~Wrapped(debited) => tokens[AresKey].unlocked_supply = credited

\* Where an invocation's error is raised: before the token record is read,
\* after token genesis, in the buy step, in the transfer step.
ErrorsAtEntry    == {"ares_owner", "rent"}
ErrorsAtChecks   == {"blacklist", "pool_owner"}
ErrorsAtBuy      == {"buy", "unlocked_supply"}
ErrorsAtTransfer ==
    {"transfer", "unlock_date", "tax_amount", "wallets_account",
     "marketing_account", "staff_account", "sender_unlocked_supply"}

\* C17: an invocation that fails stops where it fails: no later step began,
\* every buffer is as the failing step found it, and what the steps before
\* it wrote (token genesis, pool genesis or burn, the king-whale update, a
\* completed buy when the transfer fails) is still in the buffers.
C17_ErrorAborts ==
    (Invoked /\ last.result # "Ok") =>
        /\ last.at \in ErrorsAtEntry \cup ErrorsAtChecks \cup ErrorsAtBuy
                           \cup ErrorsAtTransfer
        /\ last.at \in ErrorsAtEntry =>
               /\ last.log = {}
               /\ State = last.pre
        /\ last.at \in ErrorsAtChecks =>
               /\ last.log \subseteq {"token_init"}
               /\ State = [last.pre EXCEPT !.tokens[AresKey] = tokens[AresKey]]
               /\ tokens[AresKey].b0 = 1
               /\ "token_init" \notin last.log =>
                      tokens[AresKey] = last.pre.tokens[AresKey]
        /\ last.at \in ErrorsAtBuy =>
               /\ last.log \cap {"bought", "transfer", "wallets_init", "transferred"} = {}
               /\ State = last.begin["buy"]
               /\ tokens = last.begin["pool"].tokens /\ tokens[AresKey].b0 = 1
               /\ pool = last.begin["whale"].pool /\ pool.b0 = 1
               /\ "burned" \in last.log => pool.last_burn_timestamp = last.ix.now
               /\ "whale_updated" \in last.log =>
                      kingwhale = [kingwhale_account |-> last.ix.opt[1],
                                   largest_purchase |-> last.ix.amount]
        /\ last.at \in ErrorsAtTransfer =>
               /\ "transferred" \notin last.log
               /\ State = last.begin["transfer"]
               /\ kingwhale = last.begin["buy"].kingwhale
               /\ IF "bought" \in last.log
                  THEN /\ pool.reserve =
                              WrappingSub(last.begin["buy"].pool.reserve, last.ix.amount)
                       /\ tokens[last.ix.opt[2]] # last.begin["buy"].tokens[last.ix.opt[2]]
                  ELSE State = last.begin["buy"]

\* C17 witness: a transfer was rejected for its unlock date after the same
\* invocation had burned, updated the king whale and completed a buy.
C17_Witness ==
    /\ Invoked /\ last.result = "InvalidInstructionData" /\ last.at = "unlock_date"
    /\ {"burned", "whale_updated", "bought"} \subseteq last.log
    /\ State = last.begin["transfer"]
    /\ pool # last.pre.pool /\ kingwhale # last.pre.kingwhale
    /\ tokens # last.pre.tokens

\* C18: a taxed transfer that fails for want of unlocked supply, for its
\* unlock date, or for a missing wallets, marketing or staff account writes
\* nothing: the token record, the sender's and the recipient's records, the
\* king-whale record and the wallets record are as they were when the
\* transfer step began, and nothing of the transfer is logged as done.
C18_FailedTransferWritesNothing ==
    (TransferAttempted
       /\ \/ last.result = "InsufficientFunds" /\ last.at = "transfer"
          \/ last.result = "InvalidInstructionData"
          \/ last.result = "NotEnoughAccountKeys") =>
        LET before == last.begin["transfer"]
        IN  /\ tokens[AresKey] = before.tokens[AresKey]
            /\ tokens[last.ix.opt[3]] = before.tokens[last.ix.opt[3]]
            /\ tokens[last.ix.opt[4]] = before.tokens[last.ix.opt[4]]
            /\ kingwhale = before.kingwhale
            /\ wallets = before.wallets
            /\ "transferred" \notin last.log

\* C18 witness: a transfer whose sender is the king whale, handed an
\* uninitialized wallets record and a marketing account but no staff account,
\* failed after its checks and its tax had passed.
C18_Witness ==
    /\ TransferAttempted
    /\ last.result = "NotEnoughAccountKeys" /\ last.at = "staff_account"
    /\ last.ix.opt[3] = kingwhale.kingwhale_account
    /\ wallets = ZeroWalletsBuffer
    /\ tokens[AresKey].unlocked_supply # Zero
    /\ State = last.begin["transfer"]

\* reserve + unlocked_supply of the acting token account, as u64.
ReservePlusUnlocked(b) ==
    WrappingAdd(b.pool.reserve, b.tokens[AresKey].unlocked_supply)

\* C19 (as claimed): an invocation whose buyer is not the acting token
\* account and that finds the pool initialized does not raise
\* reserve + unlocked_supply; and if that sum was at most the genesis reserve
\* before it (or the pool was uninitialized), the token record's
\* unlocked_supply is at most the genesis reserve after it.
C19_SumNeverIncreases ==
    (Invoked /\ ~(BuyAttempted /\ last.ix.opt[2] = AresKey)) =>
        /\ last.pre.pool.b0 # 0 =>
               ~U64Gt(ReservePlusUnlocked(State), ReservePlusUnlocked(last.pre))
        /\ (pool.b0 # 0
              /\ (last.pre.pool.b0 = 0
                    \/ ~U64Gt(ReservePlusUnlocked(last.pre), GenesisReserve))) =>
               ~U64Gt(tokens[AresKey].unlocked_supply, GenesisReserve)

\* C20: an invocation that finds the pool initialized never leaves an earlier
\* last_burn_timestamp than it found, whatever its clock; it burns only if
\* its clock is at least 3600 seconds after the last_burn_timestamp it found,
\* and then leaves its clock there; if it does not burn it leaves
\* last_burn_timestamp as it found it.  The timestamp a burn finds is thus
\* the clock of the burn before it (or of pool genesis), at least 3600
\* seconds earlier.
C20_BurnsAnHourApart ==
    (Invoked /\ last.pre.pool.b0 # 0) =>
        /\ pool.last_burn_timestamp >= last.pre.pool.last_burn_timestamp
        /\ IF "burned" \in last.log
           THEN /\ last.ix.now - last.pre.pool.last_burn_timestamp >= 3600
                /\ pool.last_burn_timestamp = last.ix.now
           ELSE pool.last_burn_timestamp = last.pre.pool.last_burn_timestamp

\* C20 witness: a second burn, exactly 3600 seconds after the first, of a
\* pool nobody bought from.
C20_Witness ==
    /\ Invoked /\ "burned" \in last.log
    /\ last.pre.pool.reserve = <<7980000, 0>>
    /\ last.pre.pool.last_burn_timestamp > 0
    /\ last.ix.now - last.pre.pool.last_burn_timestamp = 3600
    /\ pool.last_burn_timestamp = last.ix.now

====
